---- MODULE Spec2Model ----
(***************************************************************************)
(* Attendance check-in / check-out with geofencing                         *)
(* (Backend/app/routes/attendance_routes.py, Backend/app/crud/             *)
(* attendance_crud.py, Backend/app/utils/geolocation.py).                  *)
(*                                                                         *)
(* Time is counted in clock ticks of 12 seconds: one hundredth of an hour  *)
(* (36 s) is three ticks, so round(seconds / 3600, 2) never meets a tie.   *)
(* total_hours is kept in ticks as well (1 tick = 1/300 h), which lets the *)
(* rounded value written by the routes and the unrounded value added by    *)
(* the CRUD helper live in the same integer field.                         *)
(* Coordinates are integers in units of 1e-5 degree.                       *)
(***************************************************************************)
EXTENDS Integers, Sequences, FiniteSets, TLC

VARIABLES
    records,   \* the attendances table: a sequence, attendance_id = index
    now,       \* datetime.utcnow(), in ticks
    last,      \* outcome of the most recent request
    req,       \* concurrent check-in requests in flight (SpecConc)
    caller,    \* the layer that serves the requests: the HTTP endpoints of
               \* attendance_routes.py or the helpers of attendance_crud.py
    geo_in,    \* payload handed to validate_location (SpecGeo)
    geo_out,   \* its result (SpecGeo)
    active,    \* user_id of the rows of the users table with is_active == True,
               \* as the attendance summaries read it (SpecSummary)
    summary,   \* the most recent summary or listing computed (SpecSummary)
    cache,     \* LocationService._cache: the location details stored per
               \* rounded coordinate, with the time they were stored (SpecCache)
    OTP_STORE, \* otp_utils.OTP_STORE: the OTP and its expiry per email (SpecOtp)
    settings,  \* the settings the OTP functions read (SpecOtp)
    leaves     \* the committed status of the rows of the leaves table (SpecLeave)

vars == <<records, now, last, req, caller, geo_in, geo_out, active, summary, cache, OTP_STORE, settings, leaves>>

-----------------------------------------------------------------------------
(* Bounds of the model *)

MaxTime == 2       \* steps the clock takes: ticks within a day and midnights
MaxRecords == 2    \* rows the attendances table may hold
GridSteps == 3     \* sample coordinates per axis on each side of the center
MaxSessions == 1   \* rows of the table followed with their evidence columns

-----------------------------------------------------------------------------
(* Values *)

NULL == 0 - 1      \* Python None / SQL NULL (times and sample coordinates are >= 0)
Absent == 0 - 2    \* a key that is not in the payload dict

UserIds == 1 .. 2                 \* user_id values a request may carry
ActiveUsers == {1}            \* users with is_active == True
Callers == {"endpoints", "helpers"}
CrudUserIds == ActiveUsers        \* user_id values the helpers are called with

TicksPerDay == 86400 \div 12

today_start(t) == t - (t % TicksPerDay)
DayOf(t) == t \div TicksPerDay

\* timedelta.total_seconds() of a difference of two tick times
total_seconds(delta) == delta * 12

\* round(seconds / 3600, 2), expressed in ticks (hundredths of an hour * 3)
round_hours_2(seconds) == 3 * ((2 * seconds + 36) \div 72)

\* seconds / 3600 without rounding, expressed in ticks
hours_unrounded(seconds) == seconds \div 12

Abs(x) == IF x < 0 THEN 0 - x ELSE x

-----------------------------------------------------------------------------
(* Geofence: app/utils/geolocation.py *)

PVG_COLLEGE_COORDS == <<1846719, 7386622>>
ALLOWED_RADIUS_METERS == 350
DRIFT_ACCURACY_METERS == 150

PVG_BOUNDARY == <<
    <<1847022, 7386231>>,
    <<1847102, 7386582>>,
    <<1846966, 7386874>>,
    <<1846688, 7387119>>,
    <<1846401, 7387157>>,
    <<1846218, 7386849>>,
    <<1846261, 7386423>> >>

\* least m in lo .. hi with m * m >= s (hi * hi >= s is given)
RECURSIVE CeilSqrt(_, _, _)
CeilSqrt(s, lo, hi) ==
    IF lo >= hi THEN hi
    ELSE LET mid == (lo + hi) \div 2
         IN  IF mid * mid >= s THEN CeilSqrt(s, lo, mid) ELSE CeilSqrt(s, mid + 1, hi)

\* geodesic((lat1, lon1), (lat2, lon2)).meters, rounded up to whole metres.
\* Local flat-earth approximation at the campus latitude: 1e-5 degree is
\* 1.107 m of latitude and 1.056 m of longitude.  Offsets beyond 2000 units
\* (about 2 km) are reported as the larger axis offset, which is already far
\* outside the radius.
calculate_distance(lat1, lon1, lat2, lon2) ==
    LET dlat == Abs(lat1 - lat2)
        dlon == Abs(lon1 - lon2)
    IN  IF dlat > 2000 \/ dlon > 2000
        THEN IF dlat > dlon THEN dlat ELSE dlon
        ELSE LET dy == (dlat * 1107) \div 1000     \* metres
                 dx == (dlon * 1056) \div 1000
             IN  CeilSqrt(dy * dy + dx * dx, 0, 4096)

\* One edge of the ray casting: does the ray from (x, y) cross edge i -> j ?
\* The test is x < (xj - xi) * (y - yi) / (yj - yi) + xi; yj # yi whenever
\* the first conjunct holds.  The crossing point lies between xi and xj, so
\* an x left of both is below it and an x right of both is not; in between
\* the inequality is cross-multiplied to stay in the integers.
EdgeIntersects(x, y, xi, yi, xj, yj) ==
    /\ (yi > y) # (yj > y)
    /\ IF x < xi /\ x < xj THEN TRUE
       ELSE IF x >= xi /\ x >= xj THEN FALSE
       ELSE IF yj - yi > 0
       THEN (x - xi) * (yj - yi) < (xj - xi) * (y - yi)
       ELSE (x - xi) * (yj - yi) > (xj - xi) * (y - yi)

RECURSIVE CrossingsFrom(_, _, _)
CrossingsFrom(i, lat, lon) ==
    IF i > Len(PVG_BOUNDARY) THEN 0
    ELSE LET n == Len(PVG_BOUNDARY)
             pi == PVG_BOUNDARY[i]
             pj == PVG_BOUNDARY[(i % n) + 1]
         IN  (IF EdgeIntersects(lon, lat, pi[2], pi[1], pj[2], pj[1]) THEN 1 ELSE 0)
             + CrossingsFrom(i + 1, lat, lon)

_point_in_boundary(lat, lon) == CrossingsFrom(1, lat, lon) % 2 = 1

is_within_allowed_location_NoPolygon(lat, lon) ==
    calculate_distance(lat, lon, PVG_COLLEGE_COORDS[1], PVG_COLLEGE_COORDS[2])
        <= ALLOWED_RADIUS_METERS

is_within_allowed_location(lat, lon) ==
    IF calculate_distance(lat, lon, PVG_COLLEGE_COORDS[1], PVG_COLLEGE_COORDS[2])
            <= ALLOWED_RADIUS_METERS
    THEN TRUE
    ELSE _point_in_boundary(lat, lon)

\* dict.get(key): None for a missing key
DictGet(v) == IF v = Absent THEN NULL ELSE v

\* Python truthiness of a number-or-None
Truthy(v) == v # NULL /\ v # 0

validate_location(location_data) ==
    LET lat == DictGet(location_data.latitude)
        lon == DictGet(location_data.longitude)
        accuracy == DictGet(location_data.accuracy)
    IN  IF ~(Truthy(lat) /\ Truthy(lon))
        THEN [is_valid |-> FALSE, message |-> "Location data is incomplete"]
        ELSE IF ~is_within_allowed_location(lat, lon)
        THEN IF Truthy(accuracy) /\ accuracy > DRIFT_ACCURACY_METERS
             THEN [is_valid |-> TRUE, message |-> "Location accepted with high GPS drift"]
             ELSE [is_valid |-> FALSE,
                   message |-> "You must be within the PVG College premises to check in"]
        ELSE [is_valid |-> TRUE, message |-> "Location verified"]

-----------------------------------------------------------------------------
(* Request payloads *)

Loc(lat, lon, acc) == [latitude |-> lat, longitude |-> lon, accuracy |-> acc]

\* no location at all: None or an empty dict
NoLocation == Loc(Absent, Absent, Absent)

InsideLoc == Loc(PVG_COLLEGE_COORDS[1], PVG_COLLEGE_COORDS[2], 20)
OutsideLoc == Loc(PVG_COLLEGE_COORDS[1] + 1000, PVG_COLLEGE_COORDS[2] + 1000, 20)

\* location payloads the attendance requests are tried with
LocInputs == {NoLocation, InsideLoc, OutsideLoc}

\* outcome of the reverse geocoding call inside get_address_from_coords:
\* an address, GeocoderTimedOut / GeocoderServiceError ("timeout"), or any
\* other exception ("error")
GeocodeOutcomes == {"address", "timeout", "error"}

\* the lookup answers or raises
LookupOutcomes == {"address", "error"}

\* get_address_from_coords: the address, or None after the two exceptions it
\* catches.  Any other exception leaves the function (see
\* validate_and_process_location).
get_address_from_coords(geocode) ==
    IF geocode = "address" THEN "resolved" ELSE "none"

\* get_location_details: the coordinate with the address of the lookup, or
\* with the placeholder when the lookup returned None.  A cached answer is one
\* of these two.
get_location_details(lat, lon, geocode) ==
    [latitude |-> lat, longitude |-> lon,
     address |-> IF get_address_from_coords(geocode) # "none"
                 THEN get_address_from_coords(geocode)
                 ELSE "Address not available"]

NoDetails == [latitude |-> NULL, longitude |-> NULL, address |-> "none"]

\* `not location_data`: None or {}
IsEmptyPayload(location_data) ==
    /\ location_data.latitude = Absent
    /\ location_data.longitude = Absent
    /\ location_data.accuracy = Absent

\* validate_and_process_location: accepted, or the HTTPException it raises.
\* The HTTPExceptions raised inside its try block (missing keys: 400,
\* outside the allowed area: 403) are caught by its own `except Exception`
\* and re-raised as 400, as is an exception of the lookup.  cause names the
\* reason of the rejection; details is the processed location it returns.
validate_and_process_location(location_data, geocode) ==
    IF IsEmptyPayload(location_data)
    THEN [accepted |-> FALSE, status |-> "400", cause |-> "missing",
          details |-> NoDetails]
    ELSE IF location_data.latitude = Absent \/ location_data.longitude = Absent
    THEN [accepted |-> FALSE, status |-> "400", cause |-> "missing",
          details |-> NoDetails]
    ELSE IF ~validate_location(location_data).is_valid
    THEN [accepted |-> FALSE, status |-> "400",
          cause |-> IF validate_location(location_data).message
                          = "Location data is incomplete"
                    THEN "missing" ELSE "outside",
          details |-> NoDetails]
    ELSE IF geocode = "error"
    THEN [accepted |-> FALSE, status |-> "400", cause |-> "geocode",
          details |-> NoDetails]
    ELSE [accepted |-> TRUE, status |-> "ok", cause |-> "none",
          details |-> get_location_details(location_data.latitude,
                                           location_data.longitude, geocode)]

-----------------------------------------------------------------------------
(* The attendances table *)

Ids(recs) == 1 .. Len(recs)

\* The evidence columns gps_location, selfie and location_data (JSON or
\* NULL).  A dict is a record of the keys the handlers write; a key that was
\* never written holds NULL (coordinates, times) or "none" (strings).
NoGps == [latitude |-> NULL, longitude |-> NULL]

Gps(lat, lon) == [latitude |-> lat, longitude |-> lon]

NoSelfie == [prefix |-> "none", at |-> NULL]

\* save_selfie and the base64 branch of the JSON routes: the path of the
\* file, named after the user, the prefix and the time of the request
save_selfie(prefix, t) == [prefix |-> prefix, at |-> t]

\* the path stored for a request: selfie_path is None when nothing was sent
selfie_path(selfie, prefix, t) ==
    IF selfie THEN save_selfie(prefix, t) ELSE NoSelfie

NoEntry ==
    [latitude |-> NULL, longitude |-> NULL, address |-> "none", timestamp |-> NULL]

NoLocationData ==
    [latitude |-> NULL, longitude |-> NULL, address |-> "none", check_out |-> NoEntry]

\* location_data as a check-in writes it: the processed location of the form
\* route, or the payload of the JSON route (which has no address)
CheckInLocationData(details) ==
    [latitude |-> details.latitude, longitude |-> details.longitude,
     address |-> details.address, check_out |-> NoEntry]

\* Attendance(user_id=..., check_in=utcnow(), total_hours=0.0); db.add.
\* opened_at and closed_at are history fields of the model: when the row's
\* session was opened and when it was first closed.
NewAttendance(user_id, t) ==
    [user_id |-> user_id, check_in |-> t, check_out |-> NULL, total_hours |-> 0,
     gps_location |-> NoGps, selfie |-> NoSelfie, location_data |-> NoLocationData,
     opened_at |-> t, closed_at |-> NULL]

\* the evidence a handler writes into row id
WithEvidence(recs, id, gps_location, selfie, location_data) ==
    [recs EXCEPT ![id] = [@ EXCEPT !.gps_location = gps_location,
                                   !.selfie = selfie,
                                   !.location_data = location_data]]

\* the rows with their evidence columns left out (set to the column default)
TimeColumns(recs) ==
    [i \in DOMAIN recs |->
        [recs[i] EXCEPT !.gps_location = NoGps, !.selfie = NoSelfie,
                        !.location_data = NoLocationData]]

\* filter(user_id == u, check_in >= today_start, check_out IS NULL)
OpenTodayNoFilter(recs, u, t) == {}

\* filter(user_id == u, check_out IS NULL), whatever the day
OpenTodayAnyDay(recs, u, t) ==
    {i \in Ids(recs) : recs[i].user_id = u /\ recs[i].check_out = NULL}

OpenToday(recs, u, t) ==
    {i \in Ids(recs) : /\ recs[i].user_id = u
                       /\ recs[i].check_in >= today_start(t)
                       /\ recs[i].check_out = NULL}

\* filter(user_id == u, check_in >= today_start)
\* filter(user_id == u): the day is not looked at
Today_AnyDay(recs, u, t) == {i \in Ids(recs) : recs[i].user_id = u}

Today(recs, u, t) ==
    {i \in Ids(recs) : recs[i].user_id = u /\ recs[i].check_in >= today_start(t)}

\* order_by(check_in.desc()).first() over a non-empty set of rows
LatestOf(recs, S) == CHOOSE i \in S : \A j \in S : recs[j].check_in <= recs[i].check_in

\* db.commit(): the pending rows reach the table, or the commit raises and
\* the transaction is rolled back
db_commit_NoRollback(pending, stored, commit_ok) == pending

db_commit(pending, stored, commit_ok) == IF commit_ok THEN pending ELSE stored

Result(recs, status, detail, id, validated) ==
    [recs |-> recs, status |-> status, detail |-> detail, id |-> id,
     validated |-> validated]

-----------------------------------------------------------------------------
(* Check-in: the three code paths *)

\* the status the check-in routes answer with after db.commit():
\* 201, or 500 from `except Exception: db.rollback(); raise HTTPException(500)`
CommitStatus_Swallowed(commit_ok) == "201"

CommitStatus(commit_ok) == IF commit_ok THEN "201" ELSE "500"

\* a closed row of today is reopened instead of a new row being added
AddAttendance_Reopen(recs, t, user_id) ==
    LET closed == {i \in Today(recs, user_id, t) : recs[i].check_out # NULL}
    IN  IF closed # {}
        THEN [recs EXCEPT ![LatestOf(recs, closed)].check_out = NULL]
        ELSE Append(recs, NewAttendance(user_id, t))

\* attendance = Attendance(...); db.add(attendance)
AddAttendance(recs, t, user_id) == Append(recs, NewAttendance(user_id, t))

\* db.add(attendance); db.commit(); db.refresh(attendance) of the two routes
InsertAndCommit(recs, t, user_id, gps_location, selfie, location_data, commit_ok, validated) ==
    LET added == AddAttendance(recs, t, user_id)
        pending == WithEvidence(added, Len(added), gps_location, selfie,
                                location_data)
        stored == db_commit(pending, recs, commit_ok)
        status == CommitStatus(commit_ok)
    IN  IF status = "201"
        THEN Result(stored, status, "created", Len(stored), validated)
        ELSE Result(stored, status, "commit", 0, validated)

\* POST /attendance/check-in.  Every HTTPException raised inside the handler
\* (400 from the location, 404 from the user lookup) is caught by its
\* `except Exception` and surfaces as 500.  pick is the row .first() returns.
\* detail names the cause of a rejection: "missing" (no or incomplete
\* coordinate), "outside" (geofence), "geocode" (lookup raised), "user".
FormCheckIn(recs, t, user_id, loc, geocode, selfie, commit_ok, pick) ==
    LET v == validate_and_process_location(loc, geocode)
    IN  IF ~v.accepted
        THEN Result(recs, "500", v.cause, 0, FALSE)
        ELSE IF user_id \notin ActiveUsers
        THEN Result(recs, "500", "user", 0, TRUE)
        ELSE IF pick # 0
        THEN Result(recs, "201", "existing", pick, TRUE)
        ELSE InsertAndCommit(recs, t, user_id,
                             Gps(v.details.latitude, v.details.longitude),
                             selfie_path(selfie, "checkin", t),
                             CheckInLocationData(v.details),
                             commit_ok, TRUE)

\* POST /attendance/check-in/json.  The payload's coordinate is stored as it
\* comes; payload.gps_location['latitude'] raises for None or a missing key.
JsonCheckIn(recs, t, user_id, loc, selfie, commit_ok, pick) ==
    IF user_id \notin ActiveUsers
    THEN Result(recs, "404", "user", 0, FALSE)
    ELSE IF pick # 0
    THEN Result(recs, "201", "existing", pick, FALSE)
    ELSE IF loc.latitude = Absent \/ loc.longitude = Absent
    THEN Result(recs, "500", "payload", 0, FALSE)
    ELSE InsertAndCommit(recs, t, user_id,
                         Gps(loc.latitude, loc.longitude),
                         selfie_path(selfie, "checkin", t),
                         CheckInLocationData(
                             [latitude |-> loc.latitude,
                              longitude |-> loc.longitude, address |-> "none"]),
                         commit_ok, FALSE)

\* `gps_location or attendance.gps_location`, `selfie or attendance.selfie`
\* of the two helpers: an argument that is not None replaces the column
CrudEvidence(recs, id, gps_location, selfie) ==
    WithEvidence(recs, id,
                 IF gps_location # NoGps THEN gps_location ELSE recs[id].gps_location,
                 IF selfie # NoSelfie THEN selfie ELSE recs[id].selfie,
                 recs[id].location_data)

\* crud.check_in: an open row of today has its check_in overwritten, and
\* its gps_location and selfie when the call carries them
CrudCheckIn(recs, t, user_id, gps_location, selfie, commit_ok) ==
    LET open == OpenToday(recs, user_id, t)
        added == AddAttendance(recs, t, user_id)
        pending ==
            IF open # {}
            THEN CrudEvidence([recs EXCEPT ![LatestOf(recs, open)].check_in = t],
                              LatestOf(recs, open), gps_location, selfie)
            ELSE WithEvidence(added, Len(added), gps_location, selfie,
                              NoLocationData)
        id == IF open # {} THEN LatestOf(recs, open) ELSE Len(pending)
        stored == db_commit(pending, recs, commit_ok)
    IN  IF commit_ok
        THEN Result(stored, "returned", IF open # {} THEN "existing" ELSE "created",
                    id, FALSE)
        ELSE Result(stored, "raised", "commit", 0, FALSE)

-----------------------------------------------------------------------------
(* Check-out: the three code paths *)

\* the difference is taken the wrong way round
CloseByRoute_Reversed(recs, id, t) ==
    [recs EXCEPT ![id] = [@ EXCEPT
        !.check_out = t,
        !.total_hours = 0 - round_hours_2(total_seconds(t - recs[id].check_in)),
        !.closed_at = IF @ = NULL THEN t ELSE @]]

CloseByRoute_NoHours(recs, id, t) ==
    [recs EXCEPT ![id] = [@ EXCEPT
        !.check_out = t,
        !.closed_at = IF @ = NULL THEN t ELSE @]]

\* attendance.check_out = utcnow(); total_hours = round(time_worked / 3600, 2)
CloseByRoute(recs, id, t) ==
    [recs EXCEPT ![id] = [@ EXCEPT
        !.check_out = t,
        !.total_hours = round_hours_2(total_seconds(t - recs[id].check_in)),
        !.closed_at = IF @ = NULL THEN t ELSE @]]

\* The evidence of a check-out on row id: the selfie when one was sent, the
\* coordinate of the check-out in gps_location, and the location of the
\* check-out with its timestamp under location_data['check_out'].
CheckOutEvidence(recs, id, t, selfie, details) ==
    WithEvidence(recs, id,
                 Gps(details.latitude, details.longitude),
                 IF selfie # NoSelfie THEN selfie ELSE recs[id].selfie,
                 [recs[id].location_data EXCEPT !.check_out =
                     [latitude |-> details.latitude,
                      longitude |-> details.longitude,
                      address |-> details.address, timestamp |-> t]])

\* the location is validated only after the open row was closed and committed
FormCheckOut_LateValidation(recs, t, user_id, loc, geocode, selfie, commit_ok) ==
    LET v == validate_and_process_location(loc, geocode)
        open == OpenToday(recs, user_id, t)
    IN  IF user_id \notin ActiveUsers
        THEN Result(recs, "404", "user", 0, FALSE)
        ELSE IF open = {}
        THEN Result(recs, "400", "no_active_check_in", 0, FALSE)
        ELSE LET id == LatestOf(recs, open)
                 pending == CheckOutEvidence(CloseByRoute(recs, id, t), id, t,
                                selfie_path(selfie, "checkout", t), v.details)
                 stored == db_commit(pending, recs, commit_ok)
             IN  IF ~commit_ok
                 THEN Result(stored, "500", "commit", 0, FALSE)
                 ELSE IF ~v.accepted
                 THEN Result(stored, v.status, v.cause, 0, FALSE)
                 ELSE Result(stored, "200", "closed", id, TRUE)

\* POST /attendance/check-out
FormCheckOut(recs, t, user_id, loc, geocode, selfie, commit_ok) ==
    LET v == validate_and_process_location(loc, geocode)
        open == OpenToday(recs, user_id, t)
    IN  IF user_id \notin ActiveUsers
        THEN Result(recs, "404", "user", 0, FALSE)
        ELSE IF ~v.accepted
        THEN Result(recs, v.status, v.cause, 0, FALSE)
        ELSE IF open = {}
        THEN Result(recs, "400", "no_active_check_in", 0, TRUE)
        ELSE LET id == LatestOf(recs, open)
                 pending == CheckOutEvidence(CloseByRoute(recs, id, t), id, t,
                                selfie_path(selfie, "checkout", t), v.details)
                 stored == db_commit(pending, recs, commit_ok)
             IN  IF commit_ok
                 THEN Result(stored, "200", "closed", id, TRUE)
                 ELSE Result(stored, "500", "commit", 0, TRUE)

\* POST /attendance/check-out/json
JsonCheckOut(recs, t, user_id, loc, selfie, commit_ok) ==
    LET open == OpenToday(recs, user_id, t)
    IN  IF user_id \notin ActiveUsers
        THEN Result(recs, "404", "user", 0, FALSE)
        ELSE IF open = {}
        THEN Result(recs, "400", "no_active_check_in", 0, FALSE)
        ELSE IF loc.latitude = Absent \/ loc.longitude = Absent
        THEN Result(recs, "500", "payload", 0, FALSE)
        ELSE LET id == LatestOf(recs, open)
                 pending == CheckOutEvidence(CloseByRoute(recs, id, t), id, t,
                                selfie_path(selfie, "checkout", t),
                                [latitude |-> loc.latitude,
                                 longitude |-> loc.longitude, address |-> "none"])
                 stored == db_commit(pending, recs, commit_ok)
             IN  IF commit_ok
                 THEN Result(stored, "200", "closed", id, FALSE)
                 ELSE Result(stored, "500", "commit", 0, FALSE)

\* crud.check_out on the row .first() returned: closed or not, the row gets
\* check_out = now and the time since its last timestamp added, unrounded
CloseByCrud(recs, id, t) ==
    LET delta == IF recs[id].check_out # NULL
                 THEN t - recs[id].check_out
                 ELSE t - recs[id].check_in
    IN  [recs EXCEPT ![id] = [@ EXCEPT
            !.check_out = t,
            !.total_hours = @ + hours_unrounded(total_seconds(delta)),
            !.closed_at = IF @ = NULL THEN t ELSE @]]

\* crud.check_out: pick is the row .first() returns (0: no row of today)
CrudCheckOut(recs, t, user_id, gps_location, selfie, commit_ok, pick) ==
    IF pick = 0
    THEN Result(recs, "none", "no_record_today", 0, FALSE)
    ELSE LET pending == CrudEvidence(CloseByCrud(recs, pick, t), pick,
                                     gps_location, selfie)
             stored == db_commit(pending, recs, commit_ok)
         IN  IF commit_ok
             THEN Result(stored, "returned", "closed", pick, FALSE)
             ELSE Result(stored, "raised", "commit", 0, FALSE)

\* .first() without ORDER BY: any matching row; 0 when there is none
FirstOf(S) == IF S = {} THEN {0} ELSE S

-----------------------------------------------------------------------------
(* State machine: one request at a time *)

NoRequest ==
    [op |-> "none", path |-> "none", user |-> 0, status |-> "none",
     detail |-> "none", id |-> 0, validated |-> FALSE]

Outcome(op, path, user_id, r) ==
    [op |-> op, path |-> path, user |-> user_id,
     status |-> r.status, detail |-> r.detail, id |-> r.id,
     validated |-> r.validated]

NoGeo == [is_valid |-> FALSE, message |-> "none"]

NoSummary == [source |-> "none"]

\* self._cache = {}
NoCache == << >>

\* OTP_STORE = {}
NoOtps == << >>

\* the settings of a production deployment (random OTPs) and of a
\* development or testing deployment (the fixed OTP settings.TESTING_OTP).
\* otp_utils reads should_use_fixed_otp and TESTING_OTP from the settings
\* object; the Settings class of core/config.py declares neither, and their
\* meaning is taken from the use in otp_utils.
DefaultSettings == [should_use_fixed_otp |-> FALSE, TESTING_OTP |-> 123456]
FixedSettings == [should_use_fixed_otp |-> TRUE, TESTING_OTP |-> 123456]

\* the leaves table before any leave was applied for
NoLeaves == << >>

Init ==
    /\ records = << >>
    /\ now = 0
    /\ last = NoRequest
    /\ req = << >>
    /\ caller \in Callers
    /\ geo_in = NoLocation
    /\ geo_out = NoGeo
    /\ active = ActiveUsers
    /\ summary = NoSummary
    /\ cache = NoCache
    /\ OTP_STORE = NoOtps
    /\ settings = DefaultSettings
    /\ leaves = NoLeaves

\* The requests of Spec are followed on the time columns of the table: no
\* handler reads an evidence column to decide anything else, and the
\* evidence columns are followed under SpecEvidence.
Apply(op, path, user_id, r) ==
    /\ Len(r.recs) <= MaxRecords
    /\ records' = TimeColumns(r.recs)
    /\ last' = Outcome(op, path, user_id, r)
    /\ UNCHANGED <<now, req, caller, geo_in, geo_out, active, summary, cache, OTP_STORE, settings, leaves>>

employee_check_in_route ==
    \E user_id \in UserIds, loc \in LocInputs, geocode \in LookupOutcomes,
       commit_ok \in BOOLEAN :
        \E pick \in FirstOf(OpenToday(records, user_id, now)) :
            Apply("check_in", "form", user_id,
                  FormCheckIn(records, now, user_id, loc, geocode, FALSE,
                              commit_ok, pick))

employee_check_in_json ==
    \E user_id \in UserIds, loc \in LocInputs, commit_ok \in BOOLEAN :
        \E pick \in FirstOf(OpenToday(records, user_id, now)) :
            Apply("check_in", "json", user_id,
                  JsonCheckIn(records, now, user_id, loc, FALSE, commit_ok, pick))

check_in ==
    \E user_id \in CrudUserIds, commit_ok \in BOOLEAN :
        Apply("check_in", "crud", user_id,
              CrudCheckIn(records, now, user_id, NoGps, NoSelfie, commit_ok))

employee_check_out_route ==
    \E user_id \in UserIds, loc \in LocInputs, geocode \in LookupOutcomes,
       commit_ok \in BOOLEAN :
        Apply("check_out", "form", user_id,
              FormCheckOut(records, now, user_id, loc, geocode, FALSE, commit_ok))

employee_check_out_json ==
    \E user_id \in UserIds, loc \in LocInputs, commit_ok \in BOOLEAN :
        Apply("check_out", "json", user_id,
              JsonCheckOut(records, now, user_id, loc, FALSE, commit_ok))

check_out ==
    \E user_id \in CrudUserIds, commit_ok \in BOOLEAN :
        \E pick \in FirstOf(Today(records, user_id, now)) :
            Apply("check_out", "crud", user_id,
                  CrudCheckOut(records, now, user_id, NoGps, NoSelfie,
                               commit_ok, pick))

\* clock steps taken so far: midnights passed plus ticks into the day
Elapsed(t) == DayOf(t) + (t % TicksPerDay)

\* the clock advances within the day
Tick ==
    /\ Elapsed(now) < MaxTime
    /\ now' = now + 1
    /\ UNCHANGED <<records, last, req, caller, geo_in, geo_out, active, summary, cache, OTP_STORE, settings, leaves>>

\* midnight UTC passes
NextDay ==
    /\ Elapsed(now) < MaxTime
    /\ now' = today_start(now) + TicksPerDay
    /\ UNCHANGED <<records, last, req, caller, geo_in, geo_out, active, summary, cache, OTP_STORE, settings, leaves>>

\* the requests of one deployment go through the endpoints or through the
\* helpers (no endpoint calls crud.check_in or crud.check_out)
Next ==
    \/ caller = "endpoints" /\ employee_check_in_route
    \/ caller = "endpoints" /\ employee_check_in_json
    \/ caller = "endpoints" /\ employee_check_out_route
    \/ caller = "endpoints" /\ employee_check_out_json
    \/ caller = "helpers" /\ check_in
    \/ caller = "helpers" /\ check_out
    \/ Tick
    \/ NextDay

Spec == Init /\ [][Next]_vars

-----------------------------------------------------------------------------
(* Properties of the attendance records *)

SameUserAndDay(i, j) ==
    /\ records[i].user_id = records[j].user_id
    /\ DayOf(records[i].check_in) = DayOf(records[j].check_in)

\* a step taken by a request (the clock steps change neither)
RequestStep == last' # last \/ records' # records

\* the most recent request was rejected before it looked for the day's record
RejectedEarly(l) ==
    l.detail \in {"user", "missing", "outside", "geocode", "payload"}

\* C1: for every employee and every UTC day at most one attendance record
\* has its check_in on that day and check_out null.
C1_OneOpenSessionPerDay ==
    \A i, j \in Ids(records) :
        (i # j /\ records[i].check_out = NULL /\ records[j].check_out = NULL)
            => ~SameUserAndDay(i, j)

\* C1 witness: an employee checked out and checked in again on the same
\* day: a closed record and a later open record of that day.
C1_Witness ==
    \E i, j \in Ids(records) :
        /\ i # j /\ SameUserAndDay(i, j)
        /\ records[i].check_out # NULL
        /\ records[j].check_out = NULL
        /\ records[i].check_out <= records[j].check_in

\* C2: a check-in for an employee who already has an open record today
\* changes no record and, when it succeeds, returns that record's id.
C2_CheckInIdempotent ==
    [][ (last'.op = "check_in" /\ OpenToday(records, last'.user, now) # {})
            => /\ records' = records
               /\ (last'.status \in {"201", "returned"}
                      => last'.id \in OpenToday(records, last'.user, now)) ]_vars

\* sum of the durations of a set of closed cycles
RECURSIVE SumOfCycles(_)
SumOfCycles(S) ==
    IF S = {} THEN 0
    ELSE LET i == CHOOSE x \in S : TRUE
         IN  (records[i].closed_at - records[i].opened_at) + SumOfCycles(S \ {i})

\* the closed cycles of the user and day of record i
ClosedCyclesOfDay(i) ==
    {j \in Ids(records) : /\ records[j].user_id = records[i].user_id
                          /\ DayOf(records[j].opened_at) = DayOf(records[i].opened_at)
                          /\ records[j].closed_at # NULL}

C4_CheckOutNeedsOpenRecord ==
    [][ (/\ RequestStep
         /\ last'.op = "check_out"
         /\ ~RejectedEarly(last')
         /\ OpenToday(records, last'.user, now) = {})
            => /\ records' = records
               /\ last'.status \notin {"200", "returned"}
               /\ (last'.path # "crud" => last'.detail = "no_active_check_in") ]_vars

\* a failed commit leaves the table as it was
FailedCommitRollsBack == last'.detail = "commit" => records' = records

\* no record shows half of a check-out
NoPartialCheckOut ==
    \A i \in Ids(records) :
        /\ records[i].check_out = NULL
              => records[i].total_hours = 0 /\ records[i].closed_at = NULL
        /\ records[i].check_out # NULL
              => /\ records[i].closed_at # NULL
                 /\ (records[i].check_out - records[i].check_in >= 2
                        => records[i].total_hours > 0)

\* C6: a check-in or check-out whose commit fails leaves the stored records
\* exactly as before, and no record ever has total_hours updated with
\* check_out null or check_out set without total_hours updated.
C6_FailedCommitIsAtomic == [][FailedCommitRollsBack]_vars /\ []NoPartialCheckOut

\* C6 witness: the commit of a check-out failed and the session is still open.
C6_Witness ==
    /\ last.op = "check_out" /\ last.detail = "commit"
    /\ \E i \in OpenToday(records, last.user, now) : records[i].check_in < now

C8_GeofenceBeforeRecord ==
    [][ (/\ last'.path \in {"form", "json"}
         /\ \/ Len(records') > Len(records)
            \/ \E i \in Ids(records) :
                  records[i].check_out = NULL /\ records'[i].check_out # NULL)
            => last'.validated ]_vars

-----------------------------------------------------------------------------
(* validate_location as a function of its payload *)

GridStep == 200    \* spacing of the sample coordinates, in 1e-5 degree

SampleOffsets == {k * GridStep : k \in (0 - GridSteps) .. GridSteps}

\* latitude / longitude values tried: a grid around the center that covers
\* the radius, the polygon and their surroundings, the equator / prime
\* meridian (0), null, and a missing key
SampleLatitudes ==
    {PVG_COLLEGE_COORDS[1] + d : d \in SampleOffsets} \cup {0, NULL, Absent}
SampleLongitudes ==
    {PVG_COLLEGE_COORDS[2] + d : d \in SampleOffsets} \cup {0, NULL, Absent}
SampleAccuracies == {Absent, 0, 20, DRIFT_ACCURACY_METERS, DRIFT_ACCURACY_METERS + 1, 500}

GeoPayloads ==
    {Loc(lat, lon, acc) : lat \in SampleLatitudes, lon \in SampleLongitudes,
                          acc \in SampleAccuracies}

InitGeo ==
    /\ records = << >>
    /\ now = 0
    /\ last = NoRequest
    /\ req = << >>
    /\ caller = "helpers"
    /\ geo_in \in GeoPayloads
    /\ geo_out = NoGeo
    /\ active = ActiveUsers
    /\ summary = NoSummary
    /\ cache = NoCache
    /\ OTP_STORE = NoOtps
    /\ settings = DefaultSettings
    /\ leaves = NoLeaves

validate_location_call ==
    /\ geo_out = NoGeo
    /\ geo_out' = validate_location(geo_in)
    /\ UNCHANGED <<records, now, last, req, caller, geo_in, active, summary, cache, OTP_STORE, settings, leaves>>

NextGeo == validate_location_call

SpecGeo == InitGeo /\ [][NextGeo]_vars

\* the payload carries a latitude and a longitude
HasCoordinate(l) ==
    /\ l.latitude # Absent /\ l.latitude # NULL
    /\ l.longitude # Absent /\ l.longitude # NULL

WithinRadius(l) ==
    calculate_distance(l.latitude, l.longitude,
                       PVG_COLLEGE_COORDS[1], PVG_COLLEGE_COORDS[2])
        <= ALLOWED_RADIUS_METERS

\* C9: a coordinate within the radius of the center, or outside the radius
\* but inside the boundary polygon, is accepted whatever accuracy is reported.
C9_InsideIsAccepted ==
    (/\ geo_out # NoGeo
     /\ HasCoordinate(geo_in)
     /\ (WithinRadius(geo_in) \/ _point_in_boundary(geo_in.latitude, geo_in.longitude)))
        => geo_out.is_valid

\* C9 witness: a coordinate outside the radius and inside the polygon was
\* accepted with a good accuracy reported.
C9_Witness ==
    /\ geo_out # NoGeo /\ geo_out.is_valid
    /\ HasCoordinate(geo_in)
    /\ ~WithinRadius(geo_in)
    /\ _point_in_boundary(geo_in.latitude, geo_in.longitude)
    /\ geo_in.accuracy = 20

\* C10: a coordinate outside both the radius and the polygon is accepted if
\* and only if the reported accuracy is above 150 m, and is otherwise
\* rejected with the 'outside allowed area' reason.
C10_OutsideNeedsDrift ==
    (/\ geo_out # NoGeo
     /\ HasCoordinate(geo_in)
     /\ ~WithinRadius(geo_in)
     /\ ~_point_in_boundary(geo_in.latitude, geo_in.longitude))
        => /\ geo_out.is_valid
              <=> (geo_in.accuracy # Absent /\ geo_in.accuracy > DRIFT_ACCURACY_METERS)
           /\ (~geo_out.is_valid
                  => geo_out.message
                        = "You must be within the PVG College premises to check in")

-----------------------------------------------------------------------------
(* Two concurrent check-in requests: each request first reads (user lookup,
   location, the query for an open record of today) and later writes
   (db.add, db.commit); the other request, check-outs and the clock run in
   between. *)

Procs == 1 .. 2

IdleRequest ==
    [pc |-> "idle", path |-> "none", user |-> 0, observed |-> 0,
     status |-> "none", detail |-> "none", id |-> 0]

\* The persistence layer's guard at commit time: one open session per
\* employee and day (a uniqueness constraint or an equivalent row lock).
unique_open_session(recs) ==
    \A i, j \in Ids(recs) :
        (i # j /\ recs[i].check_out = NULL /\ recs[j].check_out = NULL)
            => ~(/\ recs[i].user_id = recs[j].user_id
                 /\ DayOf(recs[i].check_in) = DayOf(recs[j].check_in))

InitConc ==
    /\ records = << >>
    /\ now = 0
    /\ last = NoRequest
    /\ req = [p \in Procs |-> IdleRequest]
    /\ caller = "endpoints"
    /\ geo_in = NoLocation
    /\ geo_out = NoGeo
    /\ active = ActiveUsers
    /\ summary = NoSummary
    /\ cache = NoCache
    /\ OTP_STORE = NoOtps
    /\ settings = DefaultSettings
    /\ leaves = NoLeaves

\* the handler up to and including the query for an open record of today
BeginCheckIn(p) ==
    /\ req[p].pc = "idle"
    /\ \E path \in {"form", "json"}, user_id \in UserIds, loc \in LocInputs,
          geocode \in LookupOutcomes :
        \E pick \in FirstOf(OpenToday(records, user_id, now)) :
            LET r == IF path = "form"
                     THEN FormCheckIn(records, now, user_id, loc, geocode, FALSE,
                                      TRUE, pick)
                     ELSE JsonCheckIn(records, now, user_id, loc, FALSE, TRUE, pick)
            IN  req' = [req EXCEPT ![p] =
                    [pc |-> IF r.detail = "created" THEN "insert" ELSE "done",
                     path |-> path, user |-> user_id, observed |-> pick,
                     status |-> IF r.detail = "created" THEN "none" ELSE r.status,
                     detail |-> IF r.detail = "created" THEN "none" ELSE r.detail,
                     id |-> IF r.detail = "created" THEN 0 ELSE r.id]]
    /\ UNCHANGED <<records, now, last, caller, geo_in, geo_out, active, summary, cache, OTP_STORE, settings, leaves>>

\* Attendance(...), db.add, db.commit and the handler's answer, followed on
\* the time columns
CommitCheckIn(p) ==
    /\ req[p].pc = "insert"
    /\ \E commit_ok \in BOOLEAN :
        LET pending == AddAttendance(records, now, req[p].user)
            unique == unique_open_session(pending)
            r == InsertAndCommit(records, now, req[p].user,
                                 NoGps, NoSelfie, NoLocationData,
                                 commit_ok /\ unique, req[p].path = "form")
        IN  /\ Len(r.recs) <= MaxRecords
            /\ records' = TimeColumns(r.recs)
            /\ req' = [req EXCEPT ![p] =
                    [@ EXCEPT !.pc = "done", !.status = r.status,
                              !.detail = IF unique THEN r.detail ELSE "conflict",
                              !.id = r.id]]
    /\ UNCHANGED <<now, last, caller, geo_in, geo_out, active, summary, cache, OTP_STORE, settings, leaves>>

NextConc ==
    \/ \E p \in Procs : BeginCheckIn(p)
    \/ \E p \in Procs : CommitCheckIn(p)
    \/ employee_check_out_route
    \/ Tick
    \/ NextDay

SpecConc == InitConc /\ [][NextConc]_vars

-----------------------------------------------------------------------------
(* Rejected requests *)

\* C11: on the endpoints a rejected check-in or check-out carries the status
\* class of its cause: 404 for an unknown or inactive employee, 403 for a
\* location outside the allowed area, 400 for a missing or malformed
\* coordinate payload and for a check-out with no open session.
C11_RejectionStatusClass ==
    [][ (RequestStep /\ last'.path \in {"form", "json"})
            => /\ (last'.detail = "user" => last'.status = "404")
               /\ (last'.detail = "outside" => last'.status = "403")
               /\ (last'.detail \in {"missing", "payload"} => last'.status = "400")
               /\ (last'.detail = "no_active_check_in" => last'.status = "400") ]_vars

\* C12: a check-in or check-out that is rejected (employee not found or
\* inactive, missing or malformed coordinate, location outside the geofence,
\* no open session) leaves every attendance record as it was.
C12_RejectionChangesNothing ==
    [][ (/\ RequestStep
         /\ last'.detail \in {"user", "missing", "outside", "payload",
                               "no_active_check_in", "no_record_today"})
            => records' = records ]_vars

\* C12 witness: a check-out of an employee with an open session was rejected
\* for a location outside the geofence.
C12_Witness ==
    /\ last.op = "check_out" /\ last.detail = "outside"
    /\ OpenToday(records, last.user, now) # {}

-----------------------------------------------------------------------------
(* Attendance summaries and listings *)

\* a clock time (datetime.time) as ticks into the day
time(h, m, sec) == (h * 3600 + m * 60 + sec) \div 12

\* datetime.time() of a timestamp
TimeOfDay(t) == t % TicksPerDay

\* extract('hour') * 60 + extract('minute') of a timestamp
MinuteOfDay(t) == TimeOfDay(t) \div 5

\* rows with check_in between today_start and today_end
RowsOfToday(recs, t) == {i \in Ids(recs) : DayOf(recs[i].check_in) = DayOf(t)}

\* routes.get_attendance_summary: work_start = 10:00:00, work_end = 18:00:00
work_start == time(10, 0, 0)
work_end == time(18, 0, 0)

\* `check_in.time() > work_start` of routes.get_attendance_summary
route_summary_is_late(t_in) == TimeOfDay(t_in) > work_start

\* `check_out and check_out.time() < work_end` of routes.get_attendance_summary
\* (report_routes.export_performance_report has the same test)
route_summary_is_early_Inclusive(t_out) ==
    t_out # NULL /\ TimeOfDay(t_out) <= work_end

route_summary_is_early(t_out) ==
    t_out # NULL /\ TimeOfDay(t_out) < work_end

\* hour * 60 + minute > 9 * 60 + 30 of crud.get_attendance_summary
crud_summary_is_late(t_in) == MinuteOfDay(t_in) > 9 * 60 + 30

\* check_out IS NOT NULL and hour * 60 + minute < 18 * 60 of
\* crud.get_attendance_summary
crud_summary_is_early(t_out) ==
    t_out # NULL /\ MinuteOfDay(t_out) < 18 * 60

\* hour >= 9 and (hour > 9 or minute > 30) of crud.get_today_attendance_records
crud_today_is_late(t_in) ==
    LET hour == MinuteOfDay(t_in) \div 60
        minute == MinuteOfDay(t_in) % 60
    IN  hour >= 9 /\ (hour > 9 \/ minute > 30)

\* sum of the work durations (in ticks) of a set of rows: check_out - check_in,
\* or utcnow() - check_in for a row that is still open
RECURSIVE SumDurations(_, _, _)
SumDurations(recs, t, S) ==
    IF S = {} THEN 0
    ELSE LET i == CHOOSE x \in S : TRUE
             d == IF recs[i].check_out # NULL
                  THEN recs[i].check_out - recs[i].check_in
                  ELSE t - recs[i].check_in
         IN  d + SumDurations(recs, t, S \ {i})

\* round(sum(work_durations) / len(work_durations), 2) in hundredths of an
\* hour, from a sum in seconds; an exact tie goes to the even hundredth
round_average_2(seconds, n) ==
    LET q == seconds \div (36 * n)
        r == seconds % (36 * n)
    IN  IF 2 * r > 36 * n THEN q + 1
        ELSE IF 2 * r < 36 * n THEN q
        ELSE IF q % 2 = 0 THEN q ELSE q + 1

Summary(source, total, present, absent, late, early, average) ==
    [source |-> source, total_employees |-> total, present_today |-> present,
     absent_today |-> absent, late_arrivals |-> late, early_departures |-> early,
     average_work_hours |-> average]

\* routes.get_attendance_summary (GET /attendance/summary); act is the set
\* of active users
get_attendance_summary_NoActiveFilter(recs, t, act) ==
    LET rows == RowsOfToday(recs, t)
        present == Cardinality({recs[i].user_id : i \in rows})
        total == Cardinality(act)
    IN  Summary("route", total, present,
                IF total - present > 0 THEN total - present ELSE 0,
                Cardinality({i \in rows : route_summary_is_late(recs[i].check_in)}),
                Cardinality({i \in rows : route_summary_is_early(recs[i].check_out)}),
                IF rows = {} THEN 0
                ELSE round_average_2(total_seconds(SumDurations(recs, t, rows)),
                                     Cardinality(rows)))

get_attendance_summary(recs, t, act) ==
    IF Cardinality(act) = 0
    THEN Summary("route", 0, 0, 0, 0, 0, 0)
    ELSE LET rows == {i \in RowsOfToday(recs, t) : recs[i].user_id \in act}
             present == Cardinality({recs[i].user_id : i \in rows})
             total == Cardinality(act)
         IN  Summary("route", total, present,
                     IF total - present > 0 THEN total - present ELSE 0,
                     Cardinality({i \in rows : route_summary_is_late(recs[i].check_in)}),
                     Cardinality({i \in rows : route_summary_is_early(recs[i].check_out)}),
                     IF rows = {} THEN 0
                     ELSE round_average_2(total_seconds(SumDurations(recs, t, rows)),
                                          Cardinality(rows)))

\* crud.get_attendance_summary: every user and every row of today counts,
\* active or not; there is no average
crud_get_attendance_summary(recs, t, users) ==
    LET rows == RowsOfToday(recs, t)
    IN  Summary("crud", Cardinality(users), Cardinality(rows),
                Cardinality(users) - Cardinality(rows),
                Cardinality({i \in rows : crud_summary_is_late(recs[i].check_in)}),
                Cardinality({i \in rows : crud_summary_is_early(recs[i].check_out)}),
                NULL)

\* crud.get_today_attendance_records: the status label of every row of today
crud_get_today_attendance_records(recs, t) ==
    [source |-> "crud_today",
     status |-> [i \in RowsOfToday(recs, t) |->
                    IF crud_today_is_late(recs[i].check_in) THEN "late" ELSE "present"]]

\* `att.check_in.time() > 09:30` of report_routes.export_performance_report
report_is_late(t_in) == TimeOfDay(t_in) > time(9, 30, 0)

\* `att.check_out and att.check_out.time() < 18:00` of the same report
report_is_early(t_out) == t_out # NULL /\ TimeOfDay(t_out) < time(18, 0, 0)

\* export_performance_report for the range [start, end] (two midnights):
\* 404 when there is no active employee, else per active employee the
\* late and early counts over the rows with start <= check_in <= end
export_performance_report_data(recs, start, end, act) ==
    IF act = {}
    THEN [source |-> "report", status |-> "404"]
    ELSE LET rows(u) == {i \in Ids(recs) : /\ recs[i].user_id = u
                                           /\ recs[i].check_in >= start
                                           /\ recs[i].check_in <= end}
         IN  [source |-> "report", status |-> "200",
              late_count |-> [u \in act |->
                  Cardinality({i \in rows(u) : report_is_late(recs[i].check_in)})],
              early_departure_count |-> [u \in act |->
                  Cardinality({i \in rows(u) : report_is_early(recs[i].check_out)})]]

-----------------------------------------------------------------------------
(* The summaries as functions of the table and the active users *)

\* check-in and check-out times of the sample sessions: around the
\* thresholds the classifiers use
SampleCheckIns == {time(9, 30, 12), time(9, 45, 0), time(9, 46, 0), time(10, 0, 12)}
SampleCheckOuts == {NULL, time(17, 50, 0), time(17, 59, 48), time(18, 0, 0)}

\* a session as the routes leave it
SampleSession(u, t_in, t_out) ==
    IF t_out = NULL
    THEN NewAttendance(u, t_in)
    ELSE CloseByRoute(<<NewAttendance(u, t_in)>>, 1, t_out)[1]

\* two cycles of user u on the day, as the routes leave them (a check-in
\* after a check-out adds a row): in, out at 17:50, in again at 17:50
SampleCycles(u) ==
    {<<SampleSession(u, t_in, time(17, 50, 0)),
       SampleSession(u, time(17, 50, 0), t_out)>> :
          t_in \in {time(9, 30, 12), time(10, 0, 12)},
          t_out \in {NULL, time(17, 59, 48), time(18, 0, 0)}}

\* no row, one row or two rows of user u
SampleRows(u) ==
    {<< >>} \cup {<<SampleSession(u, t_in, t_out)>> :
                      t_in \in SampleCheckIns, t_out \in SampleCheckOuts}
            \cup SampleCycles(u)

\* tables of the day: rows in the order of their check-in
SampleTables ==
    {IF Len(a) = 1 /\ Len(b) = 1 /\ b[1].check_in < a[1].check_in
     THEN b \o a ELSE a \o b : a \in SampleRows(1), b \in SampleRows(2)}

InitSummary ==
    /\ records \in SampleTables
    /\ now = time(18, 30, 0)
    /\ last = NoRequest
    /\ req = << >>
    /\ caller = "endpoints"
    /\ geo_in = NoLocation
    /\ geo_out = NoGeo
    /\ active \in SUBSET UserIds
    /\ summary = NoSummary
    /\ cache = NoCache
    /\ OTP_STORE = NoOtps
    /\ settings = DefaultSettings
    /\ leaves = NoLeaves

\* GET /attendance/summary
attendance_summary ==
    /\ summary' = get_attendance_summary(records, now, active)
    /\ UNCHANGED <<records, now, last, req, caller, geo_in, geo_out, active, cache, OTP_STORE, settings, leaves>>

\* crud.get_attendance_summary over the same tables; every user_id is a
\* row of the users table
crud_attendance_summary ==
    /\ summary' = crud_get_attendance_summary(records, now, UserIds)
    /\ UNCHANGED <<records, now, last, req, caller, geo_in, geo_out, active, cache, OTP_STORE, settings, leaves>>

\* crud.get_today_attendance_records
crud_today_attendance ==
    /\ summary' = crud_get_today_attendance_records(records, now)
    /\ UNCHANGED <<records, now, last, req, caller, geo_in, geo_out, active, cache, OTP_STORE, settings, leaves>>

\* GET /reports/export with start_date today and end_date tomorrow
export_performance_report ==
    /\ summary' = export_performance_report_data(records, today_start(now),
                       today_start(now) + TicksPerDay, active)
    /\ UNCHANGED <<records, now, last, req, caller, geo_in, geo_out, active, cache, OTP_STORE, settings, leaves>>

NextSummary ==
    \/ attendance_summary
    \/ crud_attendance_summary
    \/ crud_today_attendance
    \/ export_performance_report

SpecSummary == InitSummary /\ [][NextSummary]_vars

\* the rows a summary counted
CountedRows ==
    IF summary.source = "route"
    THEN {i \in RowsOfToday(records, now) : records[i].user_id \in active}
    ELSE RowsOfToday(records, now)

\* the documented rule: late after office start 09:30 plus 15 minutes of grace
office_start_minutes == 9 * 60 + 30
grace_minutes == 15
LateByRule(t_in) == TimeOfDay(t_in) > time(0, office_start_minutes + grace_minutes, 0)

\* C13: every late count and late label follows the rule "late if and only
\* if the check-in is after office start plus grace" (09:30 + 15 minutes):
\* a check-in at 09:45 is on time, one at 09:46 is late.
C13_LateIffAfterGrace ==
    /\ summary.source \in {"route", "crud"}
          => summary.late_arrivals
                = Cardinality({i \in CountedRows : LateByRule(records[i].check_in)})
    /\ summary.source = "crud_today"
          => \A i \in CountedRows :
                summary.status[i] = "late" <=> LateByRule(records[i].check_in)

\* C14: a check-out counts as an early departure if and only if it is
\* strictly before the work end time 18:00; a session without check-out is
\* never counted.
C14_EarlyIffBeforeWorkEnd ==
    summary.source \in {"route", "crud"}
        => summary.early_departures
              = Cardinality({i \in CountedRows :
                                /\ records[i].check_out # NULL
                                /\ TimeOfDay(records[i].check_out) < time(18, 0, 0)})

\* C14 witness: the served summary counted one early departure for a day
\* with a check-out at 17:50 and a check-out at exactly 18:00.
C14_Witness ==
    /\ summary.source = "route" /\ summary.early_departures = 1
    /\ \E i, j \in CountedRows :
          /\ records[i].check_out = time(17, 50, 0)
          /\ records[j].check_out = time(18, 0, 0)

\* C15: with zero active employees the served summary has total, present,
\* absent, late-arrival and early-departure counts 0 and average 0.0,
\* whatever attendance records exist.
C15_NoActiveEmployeesAllZero ==
    (summary.source = "route" /\ active = {})
        => summary = Summary("route", 0, 0, 0, 0, 0, 0)

\* C15 witness: the summary was computed with no active employee while the
\* table holds a late check-in and an early check-out of today.
C15_Witness ==
    /\ summary.source = "route" /\ active = {}
    /\ \E i \in RowsOfToday(records, now) :
          /\ route_summary_is_late(records[i].check_in)
          /\ route_summary_is_early(records[i].check_out)

\* the active employees with a record today
PresentEmployees ==
    {records[i].user_id : i \in RowsOfToday(records, now)} \cap active

\* C21: every attendance summary has absent = total active employees -
\* present, 0 <= present <= total active employees and absent >= 0, where
\* present is the number of distinct active employees with a record today,
\* however many records each of them has.  Stated of days on which every
\* user is active.
C21_AbsentIsActiveMinusPresent ==
    (summary.source \in {"route", "crud"} /\ active = UserIds)
        => /\ summary.present_today = Cardinality(PresentEmployees)
           /\ summary.absent_today = Cardinality(active) - summary.present_today
           /\ 0 <= summary.present_today
           /\ summary.present_today <= Cardinality(active)
           /\ summary.absent_today >= 0

\* C25: in every attendance summary the late arrivals and the early
\* departures are each at most the number of employees present today, also
\* when one employee has several check-in/check-out cycles on the day.
C25_LateAndEarlyAtMostPresent ==
    summary.source \in {"route", "crud"}
        => /\ summary.late_arrivals <= summary.present_today
           /\ summary.early_departures <= summary.present_today

\* the rows of today that each of the four classifiers calls late
LateRows(rows) ==
    [route |-> {i \in rows : route_summary_is_late(records[i].check_in)},
     crud |-> {i \in rows : crud_summary_is_late(records[i].check_in)},
     crud_today |-> {i \in rows : crud_today_is_late(records[i].check_in)},
     report |-> {i \in rows : report_is_late(records[i].check_in)}]

Classifiers == {"route", "crud", "crud_today", "report"}

\* C28: the late classifiers agree: whatever the summary, listing or report
\* counted or labelled as late is what each of the four classifiers (CRUD
\* today-records, CRUD summary, route summary, report export) calls late.
C28_LateClassifiersAgree ==
    /\ summary.source \in {"route", "crud"}
          => \A c \in Classifiers :
                summary.late_arrivals = Cardinality(LateRows(CountedRows)[c])
    /\ summary.source = "crud_today"
          => \A c \in Classifiers, i \in CountedRows :
                summary.status[i] = "late" <=> i \in LateRows(CountedRows)[c]
    /\ (summary.source = "report" /\ summary.status = "200")
          => \A c \in Classifiers, u \in active :
                summary.late_count[u] =
                    Cardinality(LateRows({i \in RowsOfToday(records, now) :
                                             records[i].user_id = u})[c])

-----------------------------------------------------------------------------
(* Session bounds *)

\* AttendanceOut.validate_check_out: a check_out must be after check_in and
\* at most 24 hours after it
validate_check_out(v, t_in) ==
    v = NULL \/ (~(v <= t_in) /\ ~(total_seconds(v - t_in) > 24 * 3600))

-----------------------------------------------------------------------------
(* Hours over the day *)

RecordHoursNeverDecrease ==
    \A i \in Ids(records) :
        /\ i \in Ids(records')
        /\ records'[i].total_hours >= records[i].total_hours

-----------------------------------------------------------------------------
(* Evidence columns: the requests followed with gps_location, selfie and
   location_data, for the active employee *)

\* coordinates the requests are sent from
EvidenceLocs == {InsideLoc, OutsideLoc}

\* arguments the helpers are called with: None or a value
CrudGpsInputs == {NoGps} \cup {Gps(l.latitude, l.longitude) : l \in EvidenceLocs}
CrudSelfieInputs(t) == {NoSelfie, save_selfie("checkin", t)}

InitEvidence ==
    /\ records = << >>
    /\ now = 0
    /\ last = NoRequest
    /\ req = << >>
    /\ caller \in Callers
    /\ geo_in = NoLocation
    /\ geo_out = NoGeo
    /\ active = ActiveUsers
    /\ summary = NoSummary
    /\ cache = NoCache
    /\ OTP_STORE = NoOtps
    /\ settings = DefaultSettings
    /\ leaves = NoLeaves

Store(op, path, user_id, r) ==
    /\ Len(r.recs) <= MaxSessions
    /\ records' = r.recs
    /\ last' = Outcome(op, path, user_id, r)
    /\ UNCHANGED <<now, req, caller, geo_in, geo_out, active, summary, cache, OTP_STORE, settings, leaves>>

form_check_in ==
    \E user_id \in ActiveUsers, loc \in EvidenceLocs, geocode \in GeocodeOutcomes,
       selfie \in BOOLEAN, commit_ok \in BOOLEAN :
        \E pick \in FirstOf(OpenToday(records, user_id, now)) :
            Store("check_in", "form", user_id,
                  FormCheckIn(records, now, user_id, loc, geocode, selfie,
                              commit_ok, pick))

json_check_in ==
    \E user_id \in ActiveUsers, loc \in EvidenceLocs, selfie \in BOOLEAN,
       commit_ok \in BOOLEAN :
        \E pick \in FirstOf(OpenToday(records, user_id, now)) :
            Store("check_in", "json", user_id,
                  JsonCheckIn(records, now, user_id, loc, selfie, commit_ok, pick))

crud_check_in ==
    \E user_id \in CrudUserIds, gps_location \in CrudGpsInputs,
       selfie \in CrudSelfieInputs(now), commit_ok \in BOOLEAN :
        Store("check_in", "crud", user_id,
              CrudCheckIn(records, now, user_id, gps_location, selfie, commit_ok))

form_check_out ==
    \E user_id \in ActiveUsers, loc \in EvidenceLocs, geocode \in GeocodeOutcomes,
       selfie \in BOOLEAN, commit_ok \in BOOLEAN :
        Store("check_out", "form", user_id,
              FormCheckOut(records, now, user_id, loc, geocode, selfie, commit_ok))

json_check_out ==
    \E user_id \in ActiveUsers, loc \in EvidenceLocs, selfie \in BOOLEAN,
       commit_ok \in BOOLEAN :
        Store("check_out", "json", user_id,
              JsonCheckOut(records, now, user_id, loc, selfie, commit_ok))

crud_check_out ==
    \E user_id \in CrudUserIds, gps_location \in CrudGpsInputs,
       selfie \in CrudSelfieInputs(now), commit_ok \in BOOLEAN :
        \E pick \in FirstOf(Today(records, user_id, now)) :
            Store("check_out", "crud", user_id,
                  CrudCheckOut(records, now, user_id, gps_location, selfie,
                               commit_ok, pick))

NextEvidence ==
    \/ caller = "endpoints" /\ form_check_in
    \/ caller = "endpoints" /\ json_check_in
    \/ caller = "endpoints" /\ form_check_out
    \/ caller = "endpoints" /\ json_check_out
    \/ caller = "helpers" /\ crud_check_in
    \/ caller = "helpers" /\ crud_check_out
    \/ Tick
    \/ NextDay

SpecEvidence == InitEvidence /\ [][NextEvidence]_vars

\* the evidence columns of row id are the same before and after the step
EvidenceKept(id) ==
    /\ records'[id].gps_location = records[id].gps_location
    /\ records'[id].selfie = records[id].selfie
    /\ records'[id].location_data = records[id].location_data

\* C17: a successful check-out keeps the gps_location, the selfie and the
\* existing location_data entries of the record as the check-in left them;
\* what the check-out brings is written under location_data.check_out only.
\* Stated of the check-out endpoints.
C17_CheckOutKeepsCheckInEvidence ==
    [][(caller = "endpoints" /\ last'.op = "check_out" /\ last'.detail = "closed")
        => /\ records'[last'.id].gps_location = records[last'.id].gps_location
           /\ records'[last'.id].selfie = records[last'.id].selfie
           /\ records'[last'.id].location_data =
                  [records[last'.id].location_data EXCEPT
                      !.check_out = records'[last'.id].location_data.check_out]
      ]_vars

\* C18: a check-in that finds the session already open leaves the session's
\* gps_location, selfie and location_data as they were, on every check-in
\* path and whatever the repeated request carries.  Stated of sessions
\* whose check-in recorded a coordinate and a selfie.
C18_RepeatedCheckInKeepsEvidence ==
    [][(/\ last'.op = "check_in"
        /\ last'.detail = "existing"
        /\ records[last'.id].gps_location # NoGps
        /\ records[last'.id].selfie # NoSelfie)
        => EvidenceKept(last'.id)]_vars

\* C20: no check-in or check-out whose coordinate passed the geofence is
\* answered with an error because the reverse-geocoding lookup failed.
C20_LookupFailureNotSurfaced ==
    ~(last.detail = "geocode" /\ last.status \in {"400", "500"})

-----------------------------------------------------------------------------
(* The day frame of check-in and check-out *)

\* a record whose check_in lies on a day before the current UTC day is left
\* as it is
EarlierDayRowsKept ==
    \A i \in Ids(records) :
        DayOf(records[i].check_in) < DayOf(now)
            => i \in Ids(records') /\ records'[i] = records[i]

\* every record a step creates or modifies has its check_in on the current day
TouchedRowsAreOfToday ==
    \A i \in Ids(records') :
        (i \notin Ids(records) \/ records'[i] # records[i])
            => DayOf(records'[i].check_in) = DayOf(now)

\* without a record of the current day a check-out finds no check-in and a
\* check-in adds a record of the current day
NewDayStartsAfresh ==
    (/\ RequestStep
     /\ Today(records, last'.user, now) = {}
     /\ ~RejectedEarly(last')
     /\ last'.detail # "commit")
        => IF last'.op = "check_out"
           THEN /\ last'.detail \in {"no_active_check_in", "no_record_today"}
                /\ records' = records
           ELSE /\ last'.detail = "created"
                /\ records' = Append(records, records'[Len(records')])
                /\ records'[Len(records')].check_in = now
                /\ records'[Len(records')].check_out = NULL

\* C27: check-in and check-out create or modify only records whose check_in
\* lies on the current UTC day; a record of an earlier day, a session left
\* open at the day boundary included, is unchanged by every later check-in
\* and check-out: the next day's check-out finds no active check-in and the
\* next day's check-in creates a new record.
C27_EarlierDaysUntouched ==
    [][EarlierDayRowsKept /\ TouchedRowsAreOfToday /\ NewDayStartsAfresh]_vars

\* C27 witness: a session was left open at the day boundary and the same
\* employee's check-in of the next day created a new record beside it.
C27_Witness ==
    /\ last.op = "check_in" /\ last.detail = "created"
    /\ DayOf(records[last.id].check_in) = DayOf(now)
    /\ \E i \in Ids(records) :
          /\ records[i].user_id = last.user
          /\ records[i].check_out = NULL
          /\ DayOf(records[i].check_in) < DayOf(now)

-----------------------------------------------------------------------------
(* Incomplete payloads *)

\* C23: validate_location answers "Location data is incomplete" if and only
\* if the latitude or the longitude is missing from the payload; a payload
\* with a numeric latitude and longitude is decided by the radius, polygon
\* and accuracy steps and is never called incomplete.
C23_IncompleteIffMissing ==
    geo_out # NoGeo
        => (geo_out.message = "Location data is incomplete"
                <=> ~HasCoordinate(geo_in))

-----------------------------------------------------------------------------
(* The geocode cache of LocationService *)

\* self._cache_ttl_seconds
_cache_ttl_seconds == 300

\* _cache_key: the coordinate rounded to 5 decimals.  lat and lon are in
\* 1e-5 degree and micro is the sixth decimal digit of the latitude; a
\* digit of 5 is a tie, which round() takes to the even neighbour.
_cache_key(lat, micro, lon) ==
    <<IF micro > 5 \/ (micro = 5 /\ lat % 2 = 1) THEN lat + 1 ELSE lat, lon>>

\* the entry of key after `self._cache[cache_key] = (now, details)`
StoreEntry(c, key, t, details) ==
    [k \in DOMAIN c \cup {key} |->
        IF k = key THEN [at |-> t, details |-> details] ELSE c[k]]

\* an entry that has reached the TTL is still served
get_location_details_cached_InclusiveTtl(c, t, lat, micro, lon, geocode) ==
    LET key == _cache_key(lat, micro, lon)
        hit == /\ key \in DOMAIN c
               /\ total_seconds(t - c[key].at) <= _cache_ttl_seconds
    IN  IF hit
        THEN [raised |-> FALSE, looked_up |-> FALSE,
              details |-> c[key].details, cache |-> c]
        ELSE IF geocode = "error"
        THEN [raised |-> TRUE, looked_up |-> TRUE, details |-> NoDetails, cache |-> c]
        ELSE [raised |-> FALSE, looked_up |-> TRUE,
              details |-> get_location_details(lat, lon, geocode),
              cache |-> StoreEntry(c, key, t,
                                   get_location_details(lat, lon, geocode))]

\* get_location_details with its cache c at time t: the entry of the key
\* when it is younger than the TTL, else the lookup (which may raise) and
\* the entry replaced.  looked_up: the external call was made.
get_location_details_cached(c, t, lat, micro, lon, geocode) ==
    LET key == _cache_key(lat, micro, lon)
        hit == /\ key \in DOMAIN c
               /\ total_seconds(t - c[key].at) < _cache_ttl_seconds
    IN  IF hit
        THEN [raised |-> FALSE, looked_up |-> FALSE,
              details |-> c[key].details, cache |-> c]
        ELSE IF geocode = "error"
        THEN [raised |-> TRUE, looked_up |-> TRUE, details |-> NoDetails, cache |-> c]
        ELSE [raised |-> FALSE, looked_up |-> TRUE,
              details |-> get_location_details(lat, lon, geocode),
              cache |-> StoreEntry(c, key, t,
                                   get_location_details(lat, lon, geocode))]

Answer(accepted, cause, looked_up, details, c) ==
    [accepted |-> accepted, cause |-> cause, looked_up |-> looked_up,
     details |-> details, cache |-> c]

\* the cache is asked first and a cached coordinate is accepted as it is
validate_and_process_location_cached_CacheFirst(location_data, geocode, c, t) ==
    LET g == get_location_details_cached(c, t, location_data.latitude,
                 location_data.micro, location_data.longitude, geocode)
    IN  IF ~g.looked_up
        THEN Answer(TRUE, "none", FALSE, g.details, g.cache)
        ELSE IF ~validate_location(location_data).is_valid
        THEN Answer(FALSE, "outside", FALSE, NoDetails, c)
        ELSE IF g.raised
        THEN Answer(FALSE, "geocode", TRUE, NoDetails, c)
        ELSE Answer(TRUE, "none", TRUE, g.details, g.cache)

\* validate_and_process_location with the cache of the location service:
\* the payload checks, validate_location, then get_location_details
validate_and_process_location_cached(location_data, geocode, c, t) ==
    IF IsEmptyPayload(location_data)
    THEN Answer(FALSE, "missing", FALSE, NoDetails, c)
    ELSE IF location_data.latitude = Absent \/ location_data.longitude = Absent
    THEN Answer(FALSE, "missing", FALSE, NoDetails, c)
    ELSE IF ~validate_location(location_data).is_valid
    THEN Answer(FALSE,
                IF validate_location(location_data).message
                      = "Location data is incomplete"
                THEN "missing" ELSE "outside",
                FALSE, NoDetails, c)
    ELSE LET g == get_location_details_cached(c, t, location_data.latitude,
                      location_data.micro, location_data.longitude, geocode)
         IN  IF g.raised
             THEN Answer(FALSE, "geocode", TRUE, NoDetails, c)
             ELSE Answer(TRUE, "none", g.looked_up, g.details, g.cache)

CacheHorizon == 26   \* ticks the clock of SpecCache runs for

CacheLoc(lat, micro, lon, acc) ==
    [latitude |-> lat, micro |-> micro, longitude |-> lon, accuracy |-> acc]

\* the campus coordinate, a coordinate that rounds to it, and a coordinate
\* outside the campus reported with a good and with a poor accuracy
CachePayloads ==
    {CacheLoc(InsideLoc.latitude, 0, InsideLoc.longitude, 20),
     CacheLoc(InsideLoc.latitude - 1, 6, InsideLoc.longitude, 20),
     CacheLoc(OutsideLoc.latitude, 0, OutsideLoc.longitude, 20),
     CacheLoc(OutsideLoc.latitude, 0, OutsideLoc.longitude, 200)}

\* no request answered yet
NoAnswer ==
    [accepted |-> FALSE, cause |-> "idle", looked_up |-> FALSE,
     details |-> NoDetails, entry_age |-> NULL]

InitCache ==
    /\ records = << >>
    /\ now = 0
    /\ last = NoRequest
    /\ req = << >>
    /\ caller = "endpoints"
    /\ geo_in = CacheLoc(Absent, 0, Absent, Absent)
    /\ geo_out = NoAnswer
    /\ active = ActiveUsers
    /\ summary = NoSummary
    /\ cache = NoCache
    /\ OTP_STORE = NoOtps
    /\ settings = DefaultSettings
    /\ leaves = NoLeaves

\* the age (in ticks) of the entry a request finds under its key
EntryAge(c, t, loc) ==
    IF _cache_key(loc.latitude, loc.micro, loc.longitude) \in DOMAIN c
    THEN t - c[_cache_key(loc.latitude, loc.micro, loc.longitude)].at
    ELSE NULL

\* a check-in or check-out request up to its processed location
process_location ==
    \E loc \in CachePayloads, geocode \in GeocodeOutcomes :
        LET r == validate_and_process_location_cached(loc, geocode, cache, now)
        IN  /\ geo_in' = loc
            /\ geo_out' = [accepted |-> r.accepted, cause |-> r.cause,
                           looked_up |-> r.looked_up, details |-> r.details,
                           entry_age |-> EntryAge(cache, now, loc)]
            /\ cache' = r.cache
            /\ UNCHANGED <<records, now, last, req, caller, active, summary,
                           OTP_STORE, settings, leaves>>

\* time passes between requests: 144 or 156 seconds, so that an entry can be
\* just under, exactly at and just over the TTL
Wait ==
    \E d \in {12, 13} :
        /\ now + d <= CacheHorizon
        /\ now' = now + d
        /\ UNCHANGED <<records, last, req, caller, geo_in, geo_out, active,
                       summary, cache, OTP_STORE, settings, leaves>>

NextCache ==
    \/ process_location
    \/ Wait

SpecCache == InitCache /\ [][NextCache]_vars

\* the key of the request just answered, and whether the cache held an
\* entry for it that was stored less than 300 seconds before
AnsweredKey == _cache_key(geo_in'.latitude, geo_in'.micro, geo_in'.longitude)

FoundFresh ==
    /\ AnsweredKey \in DOMAIN cache
    /\ total_seconds(now - cache[AnsweredKey].at) < 300

\* C22: get_location_details serves a cached result only when an entry for
\* the same rounded-coordinate key was stored less than 300 seconds
\* earlier, and then makes no external call; for an absent or expired entry
\* it makes the lookup and replaces the entry of that key (and no other).
C22_CacheServesWithinTtlOnly ==
    [][(now' = now /\ geo_out'.cause \in {"none", "geocode"})
        => /\ ~geo_out'.looked_up
                => /\ FoundFresh
                   /\ geo_out'.details = cache[AnsweredKey].details
                   /\ cache' = cache
           /\ FoundFresh => ~geo_out'.looked_up
           /\ (geo_out'.looked_up /\ geo_out'.accepted)
                => cache' = StoreEntry(cache, AnsweredKey, now, geo_out'.details)
      ]_vars

\* C22 witness: a request found the entry of its key exactly 300 seconds
\* old and made the lookup again.
C22_Witness ==
    /\ geo_out.accepted /\ geo_out.looked_up
    /\ geo_out.entry_age # NULL
    /\ total_seconds(geo_out.entry_age) = 300

\* C24: the geofence decision for a coordinate and accuracy does not depend
\* on the cache: a request is rejected by the geofence exactly when
\* validate_location rejects its payload, whatever entries the cache holds.
C24_DecisionIgnoresCache ==
    geo_out.cause # "idle"
        => (geo_out.cause = "outside" <=> ~validate_location(geo_in).is_valid)

\* C24 witness: a payload was rejected by the geofence while the cache held
\* a fresh entry for its key, stored by a request from the same coordinate
\* that was accepted for its poor accuracy.
C24_Witness ==
    /\ geo_out.cause = "outside"
    /\ geo_out.entry_age # NULL
    /\ total_seconds(geo_out.entry_age) < 300
-----------------------------------------------------------------------------
(* Concurrent check-outs *)

InitOut ==
    /\ records = << >>
    /\ now = 0
    /\ last = NoRequest
    /\ req = [p \in Procs |->
                [pc |-> "idle", path |-> "none", user |-> 0, observed |-> 0,
                 seen_out |-> NULL, t_out |-> NULL, hours |-> 0,
                 status |-> "none", detail |-> "none", id |-> 0]]
    /\ caller \in Callers
    /\ geo_in = NoLocation
    /\ geo_out = NoGeo
    /\ active = ActiveUsers
    /\ summary = NoSummary
    /\ cache = NoCache
    /\ OTP_STORE = NoOtps
    /\ settings = DefaultSettings
    /\ leaves = NoLeaves

\* the answer of a check-out and the columns it is about to write, computed
\* on the row as the request's session loaded it
Loaded(path, user_id, r) ==
    [pc |-> IF r.detail = "closed" THEN "update" ELSE "done",
     path |-> path, user |-> user_id,
     observed |-> IF r.detail = "closed" THEN r.id ELSE 0,
     seen_out |-> IF r.detail = "closed" THEN records[r.id].check_out ELSE NULL,
     t_out |-> IF r.detail = "closed" THEN r.recs[r.id].check_out ELSE NULL,
     hours |-> IF r.detail = "closed" THEN r.recs[r.id].total_hours ELSE 0,
     status |-> IF r.detail = "closed" THEN "none" ELSE r.status,
     detail |-> IF r.detail = "closed" THEN "none" ELSE r.detail,
     id |-> 0]

\* POST /attendance/check-out up to db.commit(): the query for the open row
\* of today and the assignments to the loaded object
BeginCheckOut(p) ==
    /\ caller = "endpoints"
    /\ req[p].pc = "idle"
    /\ \E user_id \in UserIds, loc \in LocInputs, geocode \in LookupOutcomes :
          req' = [req EXCEPT ![p] =
                    Loaded("form", user_id,
                           FormCheckOut(records, now, user_id, loc, geocode,
                                        FALSE, TRUE))]
    /\ UNCHANGED <<records, now, last, caller, geo_in, geo_out, active, summary, cache, OTP_STORE, settings, leaves>>

\* crud.check_out up to db.commit()
BeginCrudCheckOut(p) ==
    /\ caller = "helpers"
    /\ req[p].pc = "idle"
    /\ \E user_id \in CrudUserIds :
        \E pick \in FirstOf(Today(records, user_id, now)) :
          req' = [req EXCEPT ![p] =
                    Loaded("crud", user_id,
                           CrudCheckOut(records, now, user_id, NoGps, NoSelfie,
                                        TRUE, pick))]
    /\ UNCHANGED <<records, now, last, caller, geo_in, geo_out, active, summary, cache, OTP_STORE, settings, leaves>>

\* db.commit(), db.refresh() and the answer.  The UPDATE the commit flushes
\* writes the columns the request assigned on the row with the loaded
\* attendance_id, whatever was committed to it meanwhile.
CommitCheckOut(p) ==
    /\ req[p].pc = "update"
    /\ \E commit_ok \in BOOLEAN :
        LET pending == [records EXCEPT ![req[p].observed] = [@ EXCEPT
                            !.check_out = req[p].t_out,
                            !.total_hours = req[p].hours,
                            !.closed_at = IF @ = NULL THEN req[p].t_out ELSE @]]
        IN  /\ records' = db_commit(pending, records, commit_ok)
            /\ req' = [req EXCEPT ![p] =
                  [@ EXCEPT
                    !.pc = "done",
                    !.status = IF req[p].path = "crud"
                               THEN (IF commit_ok THEN "returned" ELSE "raised")
                               ELSE (IF commit_ok THEN "200" ELSE "500"),
                    !.detail = IF commit_ok THEN "closed" ELSE "commit",
                    !.id = IF commit_ok THEN req[p].observed ELSE 0]]
    /\ UNCHANGED <<now, last, caller, geo_in, geo_out, active, summary, cache, OTP_STORE, settings, leaves>>

NextOut ==
    \/ caller = "endpoints" /\ employee_check_in_json
    \/ caller = "helpers" /\ check_in
    \/ \E p \in Procs : BeginCheckOut(p)
    \/ \E p \in Procs : BeginCrudCheckOut(p)
    \/ \E p \in Procs : CommitCheckOut(p)
    \/ Tick

SpecOut == InitOut /\ [][NextOut]_vars

\* two check-out requests that both loaded the same row while it was open
Overlapping(p, q) ==
    /\ p # q
    /\ req[p].pc = "done" /\ req[q].pc = "done"
    /\ req[p].observed # 0 /\ req[p].observed = req[q].observed
    /\ req[p].seen_out = NULL /\ req[q].seen_out = NULL

\* total_hours is the stored check_out minus check_in, to the rounding
CycleAccountedOnce(i) ==
    records[i].check_out # NULL
        => Abs(records[i].total_hours
                 - (records[i].check_out - records[i].check_in)) <= 1

\* C26: two concurrent check-outs of the same open session leave a consistent
\* record: total_hours is the stored check_out minus check_in (rounded), never
\* the sum of the two requests' durations, and at most one of the two
\* requests closes the session.  Stated for the check-out endpoint and two
\* requests that read the clock at different times.
C26_ConcurrentCheckOutsCloseOnce ==
    \A p, q \in Procs :
        (Overlapping(p, q) /\ caller = "endpoints" /\ req[p].t_out < req[q].t_out)
            => /\ CycleAccountedOnce(req[p].observed)
               /\ ~(req[p].detail = "closed" /\ req[q].detail = "closed")
-----------------------------------------------------------------------------
(* One-time passwords *)

OTP_EXPIRY_MINUTES == 5

Emails == {"a@shekru", "b@shekru"}

\* values of random.randint(100000, 999999)
RandomOtps == {100000, 999999}

\* OTP_STORE[email] = {"otp": otp, "expiry": utcnow() + OTP_EXPIRY_MINUTES},
\* the expiry in ticks
generate_otp(store, email, t, random_otp, cfg) ==
    LET otp == IF cfg.should_use_fixed_otp THEN cfg.TESTING_OTP ELSE random_otp
    IN  [otp |-> otp,
         store |-> [e \in DOMAIN store \cup {email} |->
                      IF e = email
                      THEN [otp |-> otp, expiry |-> t + (OTP_EXPIRY_MINUTES * 60) \div 12]
                      ELSE store[e]]]

\* del OTP_STORE[email]
DelOtp(store, email) ==
    IF DOMAIN store = {email}
    THEN NoOtps
    ELSE [e \in DOMAIN store \ {email} |-> store[e]]

verify_otp(store, email, otp, t, cfg) ==
    IF email \notin DOMAIN store
    THEN [ok |-> FALSE, store |-> store]
    ELSE IF cfg.should_use_fixed_otp /\ otp = cfg.TESTING_OTP
    THEN [ok |-> TRUE, store |-> DelOtp(store, email)]
    ELSE IF store[email].otp # otp
    THEN [ok |-> FALSE, store |-> store]
    ELSE IF t > store[email].expiry
    THEN [ok |-> FALSE, store |-> DelOtp(store, email)]
    ELSE [ok |-> TRUE, store |-> DelOtp(store, email)]

\* the most recent call of generate_otp or verify_otp and its result
OtpCall(op, email, otp, ok) == [op |-> op, email |-> email, otp |-> otp, ok |-> ok]

InitOtp ==
    /\ records = << >>
    /\ now = 0
    /\ last = OtpCall("none", "none", NULL, FALSE)
    /\ req = << >>
    /\ caller = "endpoints"
    /\ geo_in = NoLocation
    /\ geo_out = NoGeo
    /\ active = ActiveUsers
    /\ summary = NoSummary
    /\ cache = NoCache
    /\ OTP_STORE = NoOtps
    /\ settings \in {DefaultSettings, FixedSettings}
    /\ leaves = NoLeaves

\* POST /auth/send-otp
send_otp ==
    \E email \in Emails, random_otp \in RandomOtps :
        LET g == generate_otp(OTP_STORE, email, now, random_otp, settings)
        IN  /\ OTP_STORE' = g.store
            /\ last' = OtpCall("generate_otp", email, g.otp, TRUE)
            /\ UNCHANGED <<records, now, req, caller, geo_in, geo_out, active,
                           summary, cache, settings, leaves>>

\* POST /auth/verify-otp
verify_user ==
    \E email \in Emails, otp \in RandomOtps \cup {settings.TESTING_OTP} :
        LET v == verify_otp(OTP_STORE, email, otp, now, settings)
        IN  /\ OTP_STORE' = v.store
            /\ last' = OtpCall("verify_otp", email, otp, v.ok)
            /\ UNCHANGED <<records, now, req, caller, geo_in, geo_out, active,
                           summary, cache, settings, leaves>>

NextOtp ==
    \/ send_otp
    \/ verify_user
    \/ Wait

SpecOtp == InitOtp /\ [][NextOtp]_vars

\* a call of verify_otp is the step
VerifyStep == last'.op = "verify_otp" /\ (last' # last \/ OTP_STORE' # OTP_STORE)

-----------------------------------------------------------------------------
(* Leave decisions *)

MaxLeaves == 2     \* rows the leaves table may hold

\* a worker that is serving no PUT /leave/{leave_id}/approve request
IdleDecision ==
    [pc |-> "idle", leave_id |-> 0, approved |-> TRUE, status |-> "none"]

InitLeave ==
    /\ records = << >>
    /\ now = 0
    /\ last = NoRequest
    /\ req = [p \in Procs |-> IdleDecision]
    /\ caller = "endpoints"
    /\ geo_in = NoLocation
    /\ geo_out = NoGeo
    /\ active = ActiveUsers
    /\ summary = NoSummary
    /\ cache = NoCache
    /\ OTP_STORE = NoOtps
    /\ settings = DefaultSettings
    /\ leaves = NoLeaves

\* crud.apply_leave: Leave(...) with the column default status "Pending"
apply_leave(table) == Append(table, "Pending")

\* crud.approve_leave on an existing row: status = "Approved", db.commit()
approve_leave(table, leave_id, commit_ok) ==
    db_commit([table EXCEPT ![leave_id] = "Approved"], table, commit_ok)

\* the rejection path of the route: status = "Rejected", db.commit()
reject_leave(table, leave_id, commit_ok) ==
    db_commit([table EXCEPT ![leave_id] = "Rejected"], table, commit_ok)

\* POST /leave/
request_leave ==
    /\ Len(leaves) < MaxLeaves
    /\ leaves' = apply_leave(leaves)
    /\ UNCHANGED <<records, now, last, req, caller, geo_in, geo_out, active,
                   summary, cache, OTP_STORE, settings>>

\* PUT /leave/{leave_id}/approve up to the return of approve_leave_db
ApproveLeaveDb(p) ==
    /\ req[p].pc = "idle"
    /\ \E leave_id \in 1 .. (MaxLeaves + 1), approved, commit_ok \in BOOLEAN :
        /\ leaves' = IF leave_id \in DOMAIN leaves
                      THEN approve_leave(leaves, leave_id, commit_ok)
                      ELSE leaves
        /\ req' = [req EXCEPT ![p] =
              [pc |-> IF leave_id \in DOMAIN leaves /\ commit_ok /\ ~approved
                      THEN "reject" ELSE "done",
               leave_id |-> leave_id, approved |-> approved,
               status |-> IF leave_id \notin DOMAIN leaves THEN "404"
                          ELSE IF ~commit_ok THEN "500"
                          ELSE IF approved THEN "200" ELSE "none"]]
    /\ UNCHANGED <<records, now, last, caller, geo_in, geo_out, active,
                   summary, cache, OTP_STORE, settings>>

\* `if not approved:` leave.status = "Rejected", db.commit(), and the answer
RejectLeave(p) ==
    /\ req[p].pc = "reject"
    /\ \E commit_ok \in BOOLEAN :
        /\ leaves' = reject_leave(leaves, req[p].leave_id, commit_ok)
        /\ req' = [req EXCEPT ![p] =
              [@ EXCEPT !.pc = "done",
                        !.status = IF commit_ok THEN "200" ELSE "500"]]
    /\ UNCHANGED <<records, now, last, caller, geo_in, geo_out, active,
                   summary, cache, OTP_STORE, settings>>

\* the worker takes its next request
NextRequest(p) ==
    /\ req[p].pc = "done"
    /\ req' = [req EXCEPT ![p] = IdleDecision]
    /\ UNCHANGED <<records, now, last, caller, geo_in, geo_out, active,
                   summary, cache, OTP_STORE, settings, leaves>>

NextLeave ==
    \/ request_leave
    \/ \E p \in Procs : ApproveLeaveDb(p)
    \/ \E p \in Procs : RejectLeave(p)
    \/ \E p \in Procs : NextRequest(p)

SpecLeave == InitLeave /\ [][NextLeave]_vars

\* a step of a request that carries approved = false
RejectionStep(p) ==
    req'[p] # req[p] /\ req'[p].pc # "idle" /\ ~req'[p].approved

\* C30: a rejection through PUT /leave/{leave_id}/approve (approved = false)
\* never commits the status Approved: the only status change a step of such
\* a request commits is Pending to Rejected.
C30_RejectionNeverCommitsApproved ==
    [][ \A p \in Procs :
          RejectionStep(p)
            => \A id \in DOMAIN leaves :
                 leaves'[id] # leaves[id]
                    => leaves[id] = "Pending" /\ leaves'[id] = "Rejected" ]_vars
====
